---- MODULE Spec2Model ----
(***************************************************************************)
(* A model of the maya_helpers scripts.  Every script is a sequence of     *)
(* host commands (maya.cmds) run against the host's scene; the model keeps *)
(* the part of the scene each script reads or writes as variables and has  *)
(* one action per script call.  The inputs of a call (the host selection,  *)
(* the channel-box selection, the arguments) are drawn with \E and are     *)
(* recorded in `call`; `outcome` says how the call ended and `messages`    *)
(* holds what it displayed through MGlobal.                                *)
(***************************************************************************)
EXTENDS Integers, Sequences, FiniteSets, TLC

VARIABLES
    call,        \* the last call: its name and its inputs
    outcome,     \* "none" | "returned" | "raised"
    messages,    \* host messages displayed by the last call, in order, or
                 \* the message of the exception it raised
    selection,   \* the host's selection list after the last call
    userAttrs,   \* node -> set of the user-defined attributes on it
    proxies,     \* set of <<target, attr, source>>: proxy attributes
    skin,        \* mesh -> its skin cluster record, or NoSkin
    preScene,    \* <<userAttrs, proxies, skin>> before the last call
    calls,       \* number of script calls made so far
    attrs,       \* node -> attribute name -> value (cmds.getAttr)
    locked,      \* set of <<node, attribute>> that are not settable
    attrOrder,   \* node -> its user-defined attributes in cmds.listAttr order
    preAttrs,    \* attrs before the last call
    pivots,      \* node -> [rotatePivot, scalePivot]
    prePivots,   \* pivots before the last call
    parent,      \* node -> its parent, or World: the DAG hierarchy
    nodeType,    \* node -> cmds.nodeType
    preParent,   \* parent before the last call
    callerList,  \* the list object the caller passed as custom_structure
    result,      \* what the last call returned, <<>> when nothing
    frame,       \* locals of the running (or last) call, else <<>>
    files,       \* the files and folders written by cmds.file / os.mkdir
    connections, \* the attribute connections made by cmds.connectAttr
    poses,       \* the poses recorded by each pose interpolator
    cvs,         \* the position of each control vertex of each shape
    exports      \* the cmds.deformerWeights exports issued, in order

commonVars == <<call, outcome, messages, selection, calls>>
selVars == <<userAttrs, proxies, skin, preScene>>
attrVars == <<attrs, locked, attrOrder, preAttrs>>
pivotVars == <<pivots, prePivots>>

hierVars == <<parent, nodeType, preParent, callerList, result, frame>>
fileVars == <<files>>
rigVars == <<connections, poses, cvs, exports>>

vars == <<commonVars, selVars, attrVars, pivotVars, hierVars, fileVars, rigVars>>

\* What each specification leaves alone
notSelVars == <<attrVars, pivotVars, hierVars, fileVars, rigVars>>
notAttrVars == <<selVars, pivotVars, hierVars, fileVars, rigVars>>
notPivotVars == <<selVars, attrVars, hierVars, fileVars, rigVars>>
notHierVars == <<selVars, attrVars, pivotVars, fileVars, rigVars>>
notHierFileVars == <<selVars, attrVars, pivotVars, rigVars>>

\* The parts of the scene a specification does not use stay empty
IdleSel == userAttrs = <<>> /\ proxies = {} /\ skin = <<>> /\ preScene = <<>>
IdleAttr == attrs = <<>> /\ locked = {} /\ attrOrder = <<>> /\ preAttrs = <<>>
IdlePivot == pivots = <<>> /\ prePivots = <<>>
IdleRig == connections = {} /\ poses = <<>> /\ cvs = <<>> /\ exports = <<>>
IdleHier ==
    /\ parent = <<>> /\ nodeType = <<>> /\ preParent = <<>>
    /\ callerList = <<>> /\ result = <<>> /\ frame = <<>>
    /\ files = {}

\* ---------------------------------------------------------------- helpers

\* Largest number of nodes in a host selection
MaxSel == 3

\* Largest number of script calls followed in one session of the host
MaxCalls == 2

Range(s) == {s[i] : i \in DOMAIN s}

\* All sequences without repetition, of at most n elements of S
RECURSIVE DistinctSeqs(_, _)
DistinctSeqs(S, n) ==
    IF n = 0 THEN {<<>>}
    ELSE LET shorter == DistinctSeqs(S, n - 1)
         IN  shorter \cup {s \in {Append(t, x) : t \in shorter, x \in S} :
                              Cardinality(Range(s)) = Len(s)}

NoCall == [fn |-> "none"]

\* ------------------------------------------------- copy / proxy / copy_skin

MeshNodes == {"pCube1", "pSphere1", "pCone1"}
CustomAttrNames == {"fk_attr", "ik_attr", "note"}
SkinJoints == {"joint1", "joint2"}

NoSkin == [name |-> "none", influences |-> {}, weightsFrom |-> "none"]

\* A skin cluster made by binding a mesh to the joints
BoundSkin(cluster) == [name |-> cluster, influences |-> SkinJoints, weightsFrom |-> "bind"]

\* cmds.attributeQuery(attr, node=..., attributeType=True)
attributeType(a) ==
    CASE a = "fk_attr" -> "double"
      [] a = "ik_attr" -> "enum"
      [] OTHER        -> "typed"

validate_selection_wrong(sel) == Len(sel) >= 2

validate_selection(sel) == Len(sel) = 2

valid_attribute(attr_type) == attr_type \in {"enum", "float", "double", "integer"}

is_copy_to_same_object(sel) == Len(sel) = 1

\* cmds.channelBox(..., selectedMainAttributes=True): attributes of the
\* main (last selected) object, None (here <<>>) when there are none
ChannelBoxChoices(sel) ==
    IF sel = <<>> THEN {<<>>}
    ELSE DistinctSeqs(userAttrs[sel[Len(sel)]], 2)

\* The loop of copy_selected over the selected attributes.  st is
\* [attrs, msgs, raised]; cmds.addAttr raises when the target already has
\* an attribute of that name.
RECURSIVE CopyLoop(_, _, _, _)
CopyLoop(st, source, target, todo) ==
    IF todo = <<>> \/ st.raised THEN st
    ELSE LET a == Head(todo) IN
         IF ~valid_attribute(attributeType(a))
         THEN CopyLoop([st EXCEPT !.msgs = Append(@, "Attribute not supported")],
                       source, target, Tail(todo))
         ELSE IF a \in st.attrs[target]
         THEN [st EXCEPT !.raised = TRUE]
         ELSE CopyLoop([st EXCEPT !.attrs[target] = @ \cup {a}],
                       source, target, Tail(todo))

copy_selected(sel, cb) ==
    /\ call' = [fn |-> "copy_selected", sel |-> sel, cb |-> cb]
    /\ preScene' = <<userAttrs, proxies, skin>>
    /\ selection' = sel
    /\ UNCHANGED <<proxies, skin>>
    /\ IF ~validate_selection(sel)
       THEN /\ messages' = <<"You need to select exactly two objects.">>
            /\ outcome' = "returned"
            /\ UNCHANGED userAttrs
       ELSE IF cb = <<>>
       THEN /\ messages' = <<"Select at least one attribute on the channel box.">>
            /\ outcome' = "returned"
            /\ UNCHANGED userAttrs
       ELSE LET target == sel[1]
                source == IF is_copy_to_same_object(sel) THEN sel[1] ELSE sel[2]
                end == CopyLoop([attrs |-> userAttrs, msgs |-> <<>>, raised |-> FALSE],
                                source, target, cb)
            IN  /\ userAttrs' = end.attrs
                /\ messages' = end.msgs
                /\ outcome' = IF end.raised THEN "raised" ELSE "returned"

\* The loop of proxy_selected: cmds.addAttr(longName=attr, proxy=source.attr)
\* on the selected target.  st is [attrs, prox, raised].
RECURSIVE ProxyLoop(_, _, _, _)
ProxyLoop(st, source, target, todo) ==
    IF todo = <<>> \/ st.raised THEN st
    ELSE LET a == Head(todo) IN
         IF a \in st.attrs[target]
         THEN [st EXCEPT !.raised = TRUE]
         ELSE ProxyLoop([st EXCEPT !.attrs[target] = @ \cup {a},
                                   !.prox = @ \cup {<<target, a, source>>}],
                        source, target, Tail(todo))

proxy_selected(sel, cb) ==
    /\ call' = [fn |-> "proxy_selected", sel |-> sel, cb |-> cb]
    /\ preScene' = <<userAttrs, proxies, skin>>
    /\ UNCHANGED skin
    /\ IF ~validate_selection(sel)
       THEN /\ messages' = <<"You need to select exactly two objects.">>
            /\ outcome' = "returned"
            /\ selection' = sel
            /\ UNCHANGED <<userAttrs, proxies>>
       ELSE IF cb = <<>>
       THEN /\ messages' = <<"Select at least one attribute on the channel box.">>
            /\ outcome' = "returned"
            /\ selection' = sel
            /\ UNCHANGED <<userAttrs, proxies>>
       ELSE LET source == sel[2]
                target == sel[1]
                end == ProxyLoop([attrs |-> userAttrs, prox |-> proxies, raised |-> FALSE],
                                 source, target, cb)
            IN  /\ selection' = <<target>>
                /\ userAttrs' = end.attrs
                /\ proxies' = end.prox
                /\ messages' = <<>>
                /\ outcome' = IF end.raised THEN "raised" ELSE "returned"

\* skin_helpers.__get_selection: [ok, source, target]; ok = FALSE is the
\* raised Exception("Selection error.")
skin_get_selection(sel) ==
    IF Len(sel) # 2
    THEN [ok |-> FALSE, source |-> "none", target |-> "none"]
    ELSE [ok |-> TRUE, source |-> sel[1], target |-> sel[2]]

find_related_skin_cluster(mesh) == skin[mesh]

copy_skin(sel) ==
    /\ call' = [fn |-> "copy_skin", sel |-> sel, cb |-> <<>>]
    /\ preScene' = <<userAttrs, proxies, skin>>
    /\ selection' = sel
    /\ UNCHANGED <<userAttrs, proxies>>
    /\ LET got == skin_get_selection(sel) IN
       IF ~got.ok
       THEN /\ messages' = <<"Please select exactly two meshes to copy the skin cluster.">>
            /\ outcome' = "returned"
            /\ UNCHANGED skin
       ELSE LET source_skin == find_related_skin_cluster(got.source) IN
            IF source_skin = NoSkin
            THEN \* cmds.skinCluster(None, query=True, influence=True) raises
                 /\ messages' = <<>>
                 /\ outcome' = "raised"
                 /\ UNCHANGED skin
            ELSE /\ skin' = [skin EXCEPT ![got.target] =
                                [name |-> got.target \o "_skinCluster",
                                 influences |-> source_skin.influences,
                                 weightsFrom |-> source_skin.name]]
                 /\ messages' = <<"Successfully transferred skinning">>
                 /\ outcome' = "returned"

InitSelection ==
    /\ call = NoCall
    /\ outcome = "none"
    /\ messages = <<>>
    /\ selection = <<>>
    /\ userAttrs \in {[pCube1 |-> {}, pSphere1 |-> {"fk_attr"}, pCone1 |-> {"ik_attr", "note"}],
                     [pCube1 |-> {"fk_attr"}, pSphere1 |-> {"fk_attr", "ik_attr"}, pCone1 |-> {}]}
    /\ proxies = {}
    /\ skin \in {[pCube1 |-> BoundSkin("skinCluster1"), pSphere1 |-> NoSkin, pCone1 |-> NoSkin],
                [pCube1 |-> NoSkin, pSphere1 |-> BoundSkin("skinCluster1"),
                 pCone1 |-> BoundSkin("skinCluster2")]}
    /\ preScene = <<userAttrs, proxies, skin>>
    /\ calls = 0
    /\ IdleAttr /\ IdlePivot /\ IdleHier /\ IdleRig

Called == calls < MaxCalls /\ calls' = calls + 1

CopySelected ==
    /\ Called
    /\ \E sel \in DistinctSeqs(MeshNodes, MaxSel) :
           \E cb \in ChannelBoxChoices(sel) : copy_selected(sel, cb)
    /\ UNCHANGED notSelVars

ProxySelected ==
    /\ Called
    /\ \E sel \in DistinctSeqs(MeshNodes, MaxSel) :
           \E cb \in ChannelBoxChoices(sel) : proxy_selected(sel, cb)
    /\ UNCHANGED notSelVars

CopySkin ==
    /\ Called
    /\ \E sel \in DistinctSeqs(MeshNodes, MaxSel) : copy_skin(sel)
    /\ UNCHANGED notSelVars

NextSelection == CopySelected \/ ProxySelected \/ CopySkin

SpecSelection == InitSelection /\ [][NextSelection]_vars

\* C1: with a selection that does not hold exactly two nodes, copy_selected
\* and proxy_selected display "You need to select exactly two objects.",
\* copy_skin displays "Please select exactly two meshes to copy the skin
\* cluster.", and each returns leaving attributes, proxies and skin clusters
\* as they were.
C1_WrongSelectionIsReportedAndHarmless ==
    (call.fn \in {"copy_selected", "proxy_selected", "copy_skin"} /\ Len(call.sel) # 2)
        => /\ outcome = "returned"
           /\ messages = IF call.fn = "copy_skin"
                         THEN <<"Please select exactly two meshes to copy the skin cluster.">>
                         ELSE <<"You need to select exactly two objects.">>
           /\ <<userAttrs, proxies, skin>> = preScene
           /\ selection = call.sel

\* A three-node selection was given to copy_selected in a scene where a
\* two-node call would have had something to copy
C1_Witness ==
    /\ call.fn = "copy_selected"
    /\ Len(call.sel) = 3
    /\ userAttrs[call.sel[2]] # {}
    /\ outcome = "returned"

\* ------------------------------------------------------------ names

\* Node and attribute names are sequences of one-character strings, so
\* that str.find, str.replace, str.upper, str.endswith and str.startswith
\* are computed as Python computes them.
Lower == <<"a","b","c","d","e","f","g","h","i","j","k","l","m",
           "n","o","p","q","r","s","t","u","v","w","x","y","z">>
Upper == <<"A","B","C","D","E","F","G","H","I","J","K","L","M",
           "N","O","P","Q","R","S","T","U","V","W","X","Y","Z">>

\* str.upper on one character
UpperChar(c) ==
    IF \E i \in DOMAIN Lower : Lower[i] = c
    THEN Upper[CHOOSE i \in DOMAIN Lower : Lower[i] = c]
    ELSE c

\* str.upper
StrUpper(s) == [i \in DOMAIN s |-> UpperChar(s[i])]

\* str.find: the lowest 0-based index where sub starts, or -1
StrFind(s, sub) ==
    LET hits == {i \in 0..(Len(s) - Len(sub)) : SubSeq(s, i + 1, i + Len(sub)) = sub}
    IN  IF hits = {} THEN -1 ELSE CHOOSE i \in hits : \A j \in hits : i <= j

\* str.replace: every non-overlapping occurrence, left to right
RECURSIVE StrReplace(_, _, _)
StrReplace(s, old, new) ==
    IF Len(s) < Len(old) THEN s
    ELSE IF SubSeq(s, 1, Len(old)) = old
    THEN new \o StrReplace(SubSeq(s, Len(old) + 1, Len(s)), old, new)
    ELSE <<Head(s)>> \o StrReplace(Tail(s), old, new)

\* str.endswith
StrEndsWith(s, suffix) ==
    Len(s) >= Len(suffix) /\ SubSeq(s, Len(s) - Len(suffix) + 1, Len(s)) = suffix

\* str.startswith
StrStartsWith(s, prefix) ==
    Len(s) >= Len(prefix) /\ SubSeq(s, 1, Len(prefix)) = prefix

\* "_{0}_".format(tag)
SideTag(tag) == <<"_", tag, "_">>

Str_attr == <<"_","a","t","t","r">>
Str_attr_proxy == Str_attr \o <<"_","p","r","o","x","y">>
Str_proxy_attr == <<"_","p","r","o","x","y">> \o Str_attr
Str_ctrl == <<"_","c","t","r","l">>

\* ------------------------------------------------- attribute values

tx == <<"t","x">>
ty == <<"t","y">>
tz == <<"t","z">>
rx == <<"r","x">>
ry == <<"r","y">>
rz == <<"r","z">>
sx == <<"s","x">>
sy == <<"s","y">>
sz == <<"s","z">>
vis == <<"v">>

default_attrs == <<tx, ty, tz, rx, ry, rz, sx, sy, sz, vis>>
base_attrs == <<tx, ty, tz, rx, ry, rz, sx, sy, sz>>
default_suffixes == <<Str_attr, Str_attr_proxy, Str_proxy_attr>>

\* The controls of the scene
a_L_ctrl == <<"a">> \o SideTag("L") \o <<"c","t","r","l">>
a_R_ctrl == <<"a">> \o SideTag("R") \o <<"c","t","r","l">>
a_l_ctrl == <<"a">> \o SideTag("l") \o <<"c","t","r","l">>
b_L_ctrl == <<"b">> \o SideTag("L") \o <<"c","t","r","l">>
top_grp == <<"t","o","p","_","g","r","p">>

\* The transforms of the scene, in the order cmds.ls lists them
CtrlNodeOrder == <<a_L_ctrl, a_R_ctrl, a_l_ctrl, b_L_ctrl, top_grp>>
CtrlNodes == Range(CtrlNodeOrder)

\* User-defined attributes
k_L_attr == <<"k">> \o SideTag("L") \o <<"a","t","t","r">>
k_R_attr == <<"k">> \o SideTag("R") \o <<"a","t","t","r">>
w_attr_proxy == <<"w">> \o Str_attr_proxy
note == <<"n","o","t","e">>

IndexOf(seq, x) == CHOOSE i \in DOMAIN seq : seq[i] = x

\* cmds.objExists("node.attr")
AttrExists(a, node, attr) == attr \in DOMAIN a[node]

\* cmds.getAttr("node.attr", settable=True)
Settable(node, attr) == <<node, attr>> \notin locked

\* The custom attributes copy_attrs_values picks from cmds.listAttr(source)
RECURSIVE custom_attrs(_, _)
custom_attrs(all_attrs, suffixes) ==
    IF all_attrs = <<>> THEN <<>>
    ELSE LET attr == Head(all_attrs)
             rest == custom_attrs(Tail(all_attrs), suffixes)
         IN  IF \E i \in DOMAIN suffixes : StrEndsWith(attr, suffixes[i])
             THEN <<attr>> \o rest
             ELSE rest

\* The name copy_attrs_values writes to on the target
target_attr(a, target, attr) ==
    IF ~AttrExists(a, target, attr)
    THEN IF StrFind(attr, SideTag("L")) > 0
         THEN StrReplace(attr, SideTag("L"), SideTag("R"))
         ELSE IF StrFind(attr, SideTag("R")) > 0
         THEN StrReplace(attr, SideTag("R"), SideTag("L"))
         ELSE attr
    ELSE attr

\* The loop of copy_attrs_values over relevant_attrs; a is the attribute
\* values of the scene as the loop goes
RECURSIVE CopyValuesLoop(_, _, _, _, _)
CopyValuesLoop(a, source, target, invert_translation, todo) ==
    IF todo = <<>> THEN a
    ELSE LET attr == Head(todo)
             read == a[source][attr]
             source_value == IF invert_translation /\ attr \in {tx, ty, tz}
                             THEN 0 - read ELSE read
             written == target_attr(a, target, attr)
             a2 == IF AttrExists(a, target, written) /\ Settable(target, written)
                   THEN [a EXCEPT ![target][written] = source_value]
                   ELSE a
         IN  CopyValuesLoop(a2, source, target, invert_translation, Tail(todo))

\* copy_attrs_values as a function of the scene's attribute values
copy_attrs_values_on(a, source, target, suffixes, invert_translation) ==
    CopyValuesLoop(a, source, target, invert_translation,
                   base_attrs \o custom_attrs(attrOrder[source], suffixes))

copy_attrs_values(source, target, suffixes, invert_translation) ==
    /\ call' = [fn |-> "copy_attrs_values", source |-> source, target |-> target,
                suffixes |-> suffixes, invert |-> invert_translation]
    /\ preAttrs' = attrs
    /\ attrs' = copy_attrs_values_on(attrs, source, target, suffixes, invert_translation)
    /\ outcome' = "returned"
    /\ messages' = <<>>
    /\ UNCHANGED <<selection, locked, attrOrder>>

\* The mirror name when the side identifier is searched in the name as typed
\* (used to tell the names on which the upper-casing makes no difference)
mirror_name_same_case(ctrl) ==
    IF StrFind(ctrl, SideTag("L")) > -1
    THEN [found |-> TRUE, name |-> StrReplace(ctrl, SideTag("L"), SideTag("R"))]
    ELSE IF StrFind(ctrl, SideTag("R")) > -1
    THEN [found |-> TRUE, name |-> StrReplace(ctrl, SideTag("R"), SideTag("L"))]
    ELSE [found |-> FALSE, name |-> ctrl]

\* The mirror control name computed by mirror_ctrls_values:
\* [found, name]; found = FALSE when no side identifier is in the name
mirror_name(ctrl) ==
    IF StrFind(StrUpper(ctrl), SideTag("L")) > -1
    THEN [found |-> TRUE, name |-> StrReplace(ctrl, SideTag("L"), SideTag("R"))]
    ELSE IF StrFind(StrUpper(ctrl), SideTag("R")) > -1
    THEN [found |-> TRUE, name |-> StrReplace(ctrl, SideTag("R"), SideTag("L"))]
    ELSE [found |-> FALSE, name |-> ctrl]

NoSideWarning(ctrl) ==
    [kind |-> "warning", about |-> ctrl,
     text |-> "could not be mirrored. Couldn't find the side identifier."]

NoMirrorWarning(mirror_ctrl) ==
    [kind |-> "warning", about |-> mirror_ctrl,
     text |-> "could not be mirrored. Couldn't find the mirror control."]

\* The loop of mirror_ctrls_values; st is [a, msgs]
RECURSIVE MirrorLoop(_, _, _)
MirrorLoop(st, invert_translation, todo) ==
    IF todo = <<>> THEN st
    ELSE LET ctrl == Head(todo)
             m == mirror_name(ctrl)
         IN  IF ~m.found
             THEN MirrorLoop([st EXCEPT !.msgs = Append(@, NoSideWarning(ctrl))],
                             invert_translation, Tail(todo))
             ELSE IF m.name \in CtrlNodes
             THEN MirrorLoop([st EXCEPT !.a = copy_attrs_values_on(
                                  @, ctrl, m.name, default_suffixes, invert_translation)],
                             invert_translation, Tail(todo))
             ELSE MirrorLoop([st EXCEPT !.msgs = Append(@, NoMirrorWarning(m.name))],
                             invert_translation, Tail(todo))

mirror_ctrls_values(sel, invert_translation) ==
    /\ call' = [fn |-> "mirror_ctrls_values", sel |-> sel, invert |-> invert_translation]
    /\ preAttrs' = attrs
    /\ selection' = sel
    /\ UNCHANGED <<locked, attrOrder>>
    /\ IF Len(sel) < 1
       THEN /\ outcome' = "raised"
            /\ messages' = <<>>
            /\ UNCHANGED attrs
       ELSE LET end == MirrorLoop([a |-> attrs, msgs |-> <<>>], invert_translation, sel)
            IN  /\ attrs' = end.a
                /\ messages' = end.msgs
                /\ outcome' = "returned"

\* The value __reset_ctrl sets a default attribute to
reset_value_scale_only(attr) ==
    IF StrStartsWith(attr, <<"s">>) THEN 1 ELSE 0

reset_value(attr) ==
    IF StrStartsWith(attr, <<"s">>) \/ StrStartsWith(attr, <<"v">>) THEN 1 ELSE 0

\* The second loop of __reset_ctrl (the list of custom defaults is empty in
\* every caller, so the first loop has nothing to do)
RECURSIVE ResetLoop(_, _, _)
ResetLoop(a, node, todo) ==
    IF todo = <<>> THEN a
    ELSE LET attr == Head(todo)
             a2 == IF Settable(node, attr)
                   THEN [a EXCEPT ![node][attr] = reset_value(attr)]
                   ELSE a
         IN  ResetLoop(a2, node, Tail(todo))

reset_ctrl_on(a, node) == ResetLoop(a, node, default_attrs)

RECURSIVE ResetEach(_, _)
ResetEach(a, nodes) ==
    IF nodes = <<>> THEN a
    ELSE ResetEach(reset_ctrl_on(a, Head(nodes)), Tail(nodes))

reset_ctrl(ctrl) ==
    /\ call' = [fn |-> "reset_ctrl", nodes |-> <<ctrl>>, again |-> FALSE]
    /\ preAttrs' = attrs
    /\ attrs' = reset_ctrl_on(attrs, ctrl)
    /\ outcome' = "returned"
    /\ messages' = <<>>
    /\ UNCHANGED <<selection, locked, attrOrder>>

reset_ctrls(sel) ==
    /\ call' = [fn |-> "reset_ctrls", nodes |-> sel, again |-> FALSE]
    /\ preAttrs' = attrs
    /\ selection' = sel
    /\ messages' = <<>>
    /\ UNCHANGED <<locked, attrOrder>>
    /\ IF Len(sel) < 1
       THEN outcome' = "raised" /\ UNCHANGED attrs
       ELSE outcome' = "returned" /\ attrs' = ResetEach(attrs, sel)

\* cmds.ls("*_ctrl")
ls_suffix(suffix) == SelectSeq(CtrlNodeOrder, LAMBDA n : StrEndsWith(n, suffix))

reset_all_attrs ==
    LET all_nodes == ls_suffix(Str_ctrl) IN
    /\ call' = [fn |-> "reset_all_attrs", nodes |-> all_nodes, again |-> FALSE]
    /\ preAttrs' = attrs
    /\ selection' = all_nodes
    /\ attrs' = ResetEach(attrs, all_nodes)
    /\ outcome' = "returned"
    /\ messages' = <<>>
    /\ UNCHANGED <<locked, attrOrder>>

\* ---- the scenes the attribute scripts are run in

\* Values of a control in its rest pose
RestValue(attr) == IF attr \in {sx, sy, sz, vis} THEN 1 ELSE 0

\* Values of a posed control: different on every node and attribute, and
\* never the rest value
PosedValue(node, attr) ==
    10 * IndexOf(CtrlNodeOrder, node) + IndexOf(default_attrs, attr) + 1

CustomValue(node, attr, order) == 100 + 10 * IndexOf(CtrlNodeOrder, node) + IndexOf(order, attr)

SceneAttrs(posed, order) ==
    [n \in CtrlNodes |->
        [attr \in Range(default_attrs) \cup Range(order[n]) |->
            IF attr \in Range(default_attrs)
            THEN IF n \in posed THEN PosedValue(n, attr) ELSE RestValue(attr)
            ELSE CustomValue(n, attr, order[n])]]

\* cmds.listAttr of the user-defined attributes, per control
AttrOrders ==
    { (a_L_ctrl :> <<k_L_attr, w_attr_proxy, note>>) @@
      (a_R_ctrl :> <<k_R_attr, w_attr_proxy>>) @@
      (a_l_ctrl :> <<note>>) @@ (b_L_ctrl :> <<k_L_attr>>) @@ (top_grp :> <<>>),
      (a_L_ctrl :> <<k_R_attr, k_L_attr, note>>) @@
      (a_R_ctrl :> <<k_R_attr, note>>) @@
      (a_l_ctrl :> <<k_L_attr>>) @@ (b_L_ctrl :> <<>>) @@ (top_grp :> <<k_R_attr>>) }

PosedSets == {{}, CtrlNodes, {a_L_ctrl, a_l_ctrl, top_grp}}

LockSets ==
    { {},
      {<<a_R_ctrl, tx>>, <<a_R_ctrl, sx>>, <<a_L_ctrl, vis>>, <<a_l_ctrl, ty>>,
       <<a_R_ctrl, k_R_attr>>},
      {<<n, attr>> : n \in {a_L_ctrl, b_L_ctrl}, attr \in {rx, ry, rz, sx, sy, sz}} }

InitAttrs ==
    /\ call = NoCall
    /\ outcome = "none"
    /\ messages = <<>>
    /\ selection = <<>>
    /\ calls = 0
    /\ attrOrder \in AttrOrders
    /\ locked \in LockSets
    /\ \E posed \in PosedSets : attrs = SceneAttrs(posed, attrOrder)
    /\ preAttrs = attrs
    /\ IdleSel /\ IdlePivot /\ IdleHier /\ IdleRig

\* One script is run in the scene
FirstCall == calls = 0 /\ calls' = 1

CopyAttrsValues ==
    /\ FirstCall
    /\ \E source \in CtrlNodes, target \in CtrlNodes, invert \in BOOLEAN,
          suffixes \in {default_suffixes, <<Str_attr>>} :
           source # target /\ copy_attrs_values(source, target, suffixes, invert)
    /\ UNCHANGED notAttrVars

MirrorCtrlsValues ==
    /\ FirstCall
    /\ \E sel \in DistinctSeqs(CtrlNodes, MaxSel), invert \in BOOLEAN :
           mirror_ctrls_values(sel, invert)
    /\ UNCHANGED notAttrVars

ResetCtrl ==
    /\ FirstCall
    /\ \E ctrl \in CtrlNodes : reset_ctrl(ctrl)
    /\ UNCHANGED notAttrVars

ResetCtrls ==
    /\ FirstCall
    /\ \E sel \in DistinctSeqs(CtrlNodes, MaxSel) : reset_ctrls(sel)
    /\ UNCHANGED notAttrVars

ResetAllAttrs ==
    /\ FirstCall
    /\ reset_all_attrs
    /\ UNCHANGED notAttrVars

\* The reset just made is applied a second time to the same nodes
ResetAgain ==
    /\ calls = 1 /\ calls' = 2
    /\ call.fn \in {"reset_ctrl", "reset_ctrls", "reset_all_attrs"}
    /\ outcome = "returned"
    /\ call' = [call EXCEPT !.again = TRUE]
    /\ preAttrs' = attrs
    /\ attrs' = ResetEach(attrs, call.nodes)
    /\ UNCHANGED <<outcome, messages, selection, locked, attrOrder>>
    /\ UNCHANGED notAttrVars

NextAttrs ==
    \/ CopyAttrsValues
    \/ MirrorCtrlsValues
    \/ ResetCtrl
    \/ ResetCtrls
    \/ ResetAllAttrs
    \/ ResetAgain

SpecAttrs == InitAttrs /\ [][NextAttrs]_vars

\* The relevant attributes of a copy_attrs_values call, as the claim names
\* them: the nine transform channels and the source attributes ending
\* with one of the suffixes
RelevantAttrs(source, suffixes) ==
    Range(base_attrs) \cup
        {attr \in Range(attrOrder[source]) :
             \E i \in DOMAIN suffixes : StrEndsWith(attr, suffixes[i])}

\* The value the claim says a relevant target attribute receives
ExpectedCopy(source, attr, invert) ==
    IF invert /\ attr \in {tx, ty, tz}
    THEN 0 - preAttrs[source][attr]
    ELSE preAttrs[source][attr]

\* C5: after copy_attrs_values(source, target), every relevant attribute that
\* exists on the target and is settable holds the source value (negated for
\* tx, ty, tz under invert_translation), target attributes that are not
\* settable are unchanged, and the source is unchanged.
C5_CopyAttrsValues ==
    call.fn = "copy_attrs_values" =>
        /\ \A attr \in RelevantAttrs(call.source, call.suffixes) :
               (attr \in DOMAIN preAttrs[call.target] /\ Settable(call.target, attr))
                   => attrs[call.target][attr] = ExpectedCopy(call.source, attr, call.invert)
        /\ \A attr \in DOMAIN preAttrs[call.target] :
               ~Settable(call.target, attr)
                   => attrs[call.target][attr] = preAttrs[call.target][attr]
        /\ DOMAIN attrs[call.target] = DOMAIN preAttrs[call.target]
        /\ attrs[call.source] = preAttrs[call.source]

\* The part of C5 about the nine transform channels and about what is left
\* alone, which the code does satisfy
C5_BaseChannelsCopied ==
    call.fn = "copy_attrs_values" =>
        /\ \A attr \in Range(base_attrs) :
               Settable(call.target, attr)
                   => attrs[call.target][attr] = ExpectedCopy(call.source, attr, call.invert)
        /\ \A attr \in DOMAIN preAttrs[call.target] :
               ~Settable(call.target, attr)
                   => attrs[call.target][attr] = preAttrs[call.target][attr]
        /\ attrs[call.source] = preAttrs[call.source]

\* The side tags the claim names, in the case it names them
HasSideTag(ctrl) ==
    StrFind(ctrl, SideTag("L")) > -1 \/ StrFind(ctrl, SideTag("R")) > -1

OppositeCtrl(ctrl) ==
    IF StrFind(ctrl, SideTag("L")) > -1
    THEN StrReplace(ctrl, SideTag("L"), SideTag("R"))
    ELSE StrReplace(ctrl, SideTag("R"), SideTag("L"))

\* The transform channels of ctrl were copied onto other
CopiedOnto(ctrl, other, invert) ==
    \A attr \in Range(base_attrs) :
        Settable(other, attr) =>
            attrs[other][attr] = IF invert /\ attr \in {tx, ty, tz}
                                 THEN 0 - attrs[ctrl][attr] ELSE attrs[ctrl][attr]

WarnedAbout(name) ==
    \E i \in DOMAIN messages : messages[i].kind = "warning" /\ messages[i].about = name

\* C6: mirror_ctrls_values raises with an empty selection; otherwise every
\* selected control with a side tag _L_ or _R_ whose opposite-side control
\* exists has its values copied onto that control, and every other selected
\* control is skipped with a warning and is itself left as it was, the
\* later controls still being processed.
C6_MirrorCtrlsValues ==
    call.fn = "mirror_ctrls_values" =>
        IF call.sel = <<>>
        THEN outcome = "raised" /\ attrs = preAttrs
        ELSE /\ outcome = "returned"
             /\ \A i \in DOMAIN call.sel :
                    LET ctrl == call.sel[i] IN
                    IF HasSideTag(ctrl) /\ OppositeCtrl(ctrl) \in CtrlNodes
                    THEN CopiedOnto(ctrl, OppositeCtrl(ctrl), call.invert)
                    ELSE WarnedAbout(IF HasSideTag(ctrl) THEN OppositeCtrl(ctrl) ELSE ctrl)

\* C6 for the selections in which every control name is free of the
\* lower-case tags _l_ and _r_
C6_UpperCaseOnly ==
    (/\ call.fn = "mirror_ctrls_values"
     /\ \A i \in DOMAIN call.sel : mirror_name(call.sel[i]) = mirror_name_same_case(call.sel[i]))
        => C6_MirrorCtrlsValues

\* The default values the claim lists
DefaultValue(attr) ==
    CASE attr \in {tx, ty, tz, rx, ry, rz} -> 0
      [] attr \in {sx, sy, sz} -> 1
      [] attr = vis -> 1

\* C7: after a reset every settable default attribute of every reset node
\* holds its default value, every default attribute that is not settable
\* holds its previous value, a second application changes nothing, and
\* reset_ctrls raises on an empty selection.
C7_ResetToDefaults ==
    call.fn \in {"reset_ctrl", "reset_ctrls", "reset_all_attrs"} =>
        IF call.fn = "reset_ctrls" /\ call.nodes = <<>>
        THEN outcome = "raised" /\ attrs = preAttrs
        ELSE /\ outcome = "returned"
             /\ \A i \in DOMAIN call.nodes : \A attr \in Range(default_attrs) :
                    attrs[call.nodes[i]][attr] =
                        IF Settable(call.nodes[i], attr)
                        THEN DefaultValue(attr)
                        ELSE preAttrs[call.nodes[i]][attr]
             /\ call.again => attrs = preAttrs

\* A posed control with a locked, non-default channel was reset twice
C7_Witness ==
    /\ call.fn = "reset_ctrls"
    /\ call.again
    /\ \E i \in DOMAIN call.nodes :
           /\ \E attr \in Range(default_attrs) :
                  ~Settable(call.nodes[i], attr)
                      /\ attrs[call.nodes[i]][attr] # DefaultValue(attr)
           /\ Settable(call.nodes[i], vis)
           /\ attrs[call.nodes[i]][vis] = 1

\* ------------------------------------------------------------ pivots

ZeroPivot == <<0, 0, 0>>
MovedPivot == <<1, 2, 3>>

\* cmds.setAttr(node + ".rotatePivot", 0, 0, 0, type="double3") and the same
\* for scalePivot
zero_pivots_of(p, node) ==
    [p EXCEPT ![node] = [rotatePivot |-> ZeroPivot, scalePivot |-> ZeroPivot]]

\* The loop of clean_pivots only formats the two attribute names; the two
\* cmds.setAttr calls come after it and use the names of the last iteration
clean_pivots(sel) ==
    /\ call' = [fn |-> "clean_pivots", sel |-> sel]
    /\ prePivots' = pivots
    /\ selection' = sel
    /\ messages' = <<>>
    /\ IF sel = <<>>
       THEN outcome' = "raised" /\ UNCHANGED pivots
       ELSE LET last_selection == sel[Len(sel)]
            IN  /\ outcome' = "returned"
                /\ pivots' = zero_pivots_of(pivots, last_selection)

InitPivots ==
    /\ call = NoCall
    /\ outcome = "none"
    /\ messages = <<>>
    /\ selection = <<>>
    /\ calls = 0
    /\ pivots \in [MeshNodes -> [rotatePivot : {ZeroPivot, MovedPivot},
                                 scalePivot : {ZeroPivot, MovedPivot}]]
    /\ prePivots = pivots
    /\ IdleSel /\ IdleAttr /\ IdleHier /\ IdleRig

CleanPivots ==
    /\ Called
    /\ \E sel \in DistinctSeqs(MeshNodes, MaxSel) : clean_pivots(sel)
    /\ UNCHANGED notPivotVars

NextPivots == CleanPivots

SpecPivots == InitPivots /\ [][NextPivots]_vars

\* C3: after clean_pivots every node that was selected has rotatePivot and
\* scalePivot at (0,0,0), for any selection of one node or more; with an
\* empty selection it raises and changes nothing.
C3_CleanPivotsZeroesSelection ==
    call.fn = "clean_pivots" =>
        IF call.sel = <<>>
        THEN outcome = "raised" /\ pivots = prePivots
        ELSE /\ outcome = "returned"
             /\ \A i \in DOMAIN call.sel :
                    /\ pivots[call.sel[i]].rotatePivot = ZeroPivot
                    /\ pivots[call.sel[i]].scalePivot = ZeroPivot

\* What the code does instead: the last selected node is zeroed and every
\* other node keeps its pivots
C3_OnlyLastIsZeroed ==
    (call.fn = "clean_pivots" /\ call.sel # <<>>) =>
        \A n \in MeshNodes :
            pivots[n] = IF n = call.sel[Len(call.sel)]
                        THEN [rotatePivot |-> ZeroPivot, scalePivot |-> ZeroPivot]
                        ELSE prePivots[n]

\* --------------------------------------------------------- hierarchy

\* cmds.listRelatives(node, parent=True): None (here <<>>) for a node at the
\* scene root, else the one-element list of its parent
NoParent == <<>>

\* The default of get_top_parent's max_level
DefaultMaxLevel == 99

\* Number of nodes of the deepest chain of transforms in the scene
ChainDepth == 102

\* get_top_parent is entered: its locals before the loop.  current_parent is
\* <<>> for None and <<n>> for the node n.
get_top_parent_enter(node, max_level) ==
    /\ outcome # "running"
    /\ call' = [fn |-> "get_top_parent", node |-> node, max_level |-> max_level]
    /\ frame' = [current_parent |-> <<node>>, parent |-> node, level |-> 1]
    /\ outcome' = "running"
    /\ result' = <<>>
    /\ messages' = <<>>
    /\ UNCHANGED <<selection, calls, parent, nodeType, preParent, callerList>>

\* Whether the while loop of get_top_parent goes round once more
top_parent_loop_goes_on(f, max_level) ==
    f.current_parent # NoParent /\ ~(f.level > max_level)

\* One round of the while loop
get_top_parent_round ==
    /\ outcome = "running"
    /\ call.fn = "get_top_parent"
    /\ top_parent_loop_goes_on(frame, call.max_level)
    /\ LET up == parent[frame.current_parent[1]]
       IN  frame' = IF up # NoParent
                    THEN [current_parent |-> up, parent |-> up[1],
                          level |-> frame.level + 1]
                    ELSE [frame EXCEPT !.current_parent = up]
    /\ UNCHANGED <<call, outcome, result, messages>>
    /\ UNCHANGED <<selection, calls, parent, nodeType, preParent, callerList>>

\* The loop is left and parent is returned
get_top_parent_return ==
    /\ outcome = "running"
    /\ call.fn = "get_top_parent"
    /\ ~top_parent_loop_goes_on(frame, call.max_level)
    /\ result' = <<frame.parent>>
    /\ outcome' = "returned"
    /\ frame' = <<>>
    /\ UNCHANGED <<call, messages>>
    /\ UNCHANGED <<selection, calls, parent, nodeType, preParent, callerList>>

\* A chain of transforms 1 <- 2 <- ... <- ChainDepth: node i has the i - 1
\* ancestors 1 .. i - 1
InitTopParent ==
    /\ call = NoCall
    /\ outcome = "none"
    /\ messages = <<>>
    /\ selection = <<>>
    /\ calls = 0
    /\ parent = [i \in 1..ChainDepth |-> IF i = 1 THEN NoParent ELSE <<i - 1>>]
    /\ nodeType = [i \in 1..ChainDepth |-> "transform"]
    /\ preParent = parent
    /\ callerList = <<>>
    /\ result = <<>>
    /\ frame = <<>>
    /\ IdleSel /\ IdleAttr /\ IdlePivot /\ files = {} /\ IdleRig

GetTopParent ==
    /\ \E node \in DOMAIN parent, max_level \in {DefaultMaxLevel, 1, 2, 3} :
           get_top_parent_enter(node, max_level)
    /\ UNCHANGED notHierVars

GetTopParentRound == get_top_parent_round /\ UNCHANGED notHierVars

GetTopParentReturn == get_top_parent_return /\ UNCHANGED notHierVars

NextTopParent == GetTopParent \/ GetTopParentRound \/ GetTopParentReturn

SpecTopParent == InitTopParent /\ [][NextTopParent]_vars

\* C4: without max_level get_top_parent returns an ancestor of the node (or
\* the node) that has no parent, whatever the depth of the node.
C4_TopParentHasNoParent ==
    (call.fn = "get_top_parent" /\ call.max_level = DefaultMaxLevel
        /\ outcome = "returned") =>
        /\ result[1] <= call.node
        /\ parent[result[1]] = NoParent

\* C4 holds of the nodes with at most DefaultMaxLevel ancestors
C4_UpToDefaultMaxLevel ==
    (/\ call.fn = "get_top_parent"
     /\ call.max_level = DefaultMaxLevel
     /\ outcome = "returned"
     /\ call.node - 1 <= DefaultMaxLevel)
        => parent[result[1]] = NoParent

\* ------------------------------------------------------ group parents

\* Longest custom_structure list passed to create_group_parent
MaxStructure == 3

\* str.rfind: the highest 0-based index where sub starts, or -1
StrRFind(s, sub) ==
    LET hits == {i \in 0..(Len(s) - Len(sub)) : SubSeq(s, i + 1, i + Len(sub)) = sub}
    IN  IF hits = {} THEN -1 ELSE CHOOSE i \in hits : \A j \in hits : i >= j

\* The slice s[:idx] of Python, idx negative counting from the end
SliceTo(s, idx) ==
    IF idx >= 0
    THEN SubSeq(s, 1, IF idx < Len(s) THEN idx ELSE Len(s))
    ELSE SubSeq(s, 1, IF Len(s) + idx > 0 THEN Len(s) + idx ELSE 0)

\* list.reverse
Reverse(s) == [i \in 1..Len(s) |-> s[Len(s) + 1 - i]]

Digits == <<"1", "2", "3", "4", "5", "6", "7", "8", "9">>

\* The name the host gives a new node asked to be called name: name itself
\* when it is free, else name followed by the first free number
UniqueName(par, name) ==
    IF name \notin DOMAIN par THEN name
    ELSE LET free == {i \in DOMAIN Digits : (name \o <<Digits[i]>>) \notin DOMAIN par}
         IN  name \o <<Digits[CHOOSE i \in free : \A j \in free : i <= j]>>

\* __create_group: [par, group], the hierarchy with the new empty group at the
\* scene root, and the name of the group
create_group(par, name, suffix, replace_suffix) ==
    LET name2 == IF replace_suffix THEN SliceTo(name, StrRFind(name, <<"_">>)) ELSE name
        group_name == name2 \o <<"_">> \o suffix
        group == UniqueName(par, group_name)
    IN  [par |-> (group :> NoParent) @@ par, group |-> group]

\* cmds.parent(child, new_parent)
parent_under(par, child, new_parent) == [par EXCEPT ![child] = <<new_parent>>]

\* The loop of __create_group_parent_custom; st is [par, groups]
RECURSIVE CustomGroupsLoop(_, _, _, _)
CustomGroupsLoop(st, target, replace_suffix, todo) ==
    IF todo = <<>> THEN st
    ELSE LET made == create_group(st.par, target, Head(todo), replace_suffix)
             groups == Append(st.groups, made.group)
             par2 == IF Len(groups) > 1
                     THEN parent_under(made.par, groups[Len(groups) - 1], groups[Len(groups)])
                     ELSE made.par
         IN  CustomGroupsLoop([par |-> par2, groups |-> groups],
                              target, replace_suffix, Tail(todo))

\* Which of the created groups __create_group_parent_custom returns
custom_returned(groups) == groups[1]

\* __create_group_parent_custom: [par, list, returned]; list is the caller's
\* list after the in-place custom_structure.reverse()
create_group_parent_custom(par, target, custom_structure, replace_suffix, reparent) ==
    LET old_parent == par[target]
        reversed == Reverse(custom_structure)
        end == CustomGroupsLoop([par |-> par, groups |-> <<>>],
                                target, replace_suffix, reversed)
        par2 == parent_under(end.par, target, end.groups[1])
        par3 == IF reparent /\ old_parent # NoParent
                THEN parent_under(par2, end.groups[Len(end.groups)], old_parent[1])
                ELSE par2
    IN  [par |-> par3, list |-> reversed, returned |-> custom_returned(end.groups)]

Str_offset == <<"o","f","f","s","e","t">>
Str_world == <<"w","o","r","l","d">>
Str_driver == <<"d","r","i","v","e","r">>

\* Which of the two groups the default structure returns
default_returned(offset_group, external_group) == external_group

\* create_group_parent as a function of the hierarchy: [par, list, returned]
create_group_parent_on(par, target, custom_structure, replace_suffix, reparent) ==
    IF custom_structure # <<>>
    THEN create_group_parent_custom(par, target, custom_structure, replace_suffix, reparent)
    ELSE LET old_parent == par[target]
             off == create_group(par, target, Str_offset, FALSE)
             ext == create_group(off.par, target, Str_world, FALSE)
             par2 == parent_under(ext.par, target, off.group)
             par3 == parent_under(par2, off.group, ext.group)
             par4 == IF reparent /\ old_parent # NoParent
                     THEN parent_under(par3, ext.group, old_parent[1])
                     ELSE par3
         IN  [par |-> par4, list |-> custom_structure,
              returned |-> default_returned(off.group, ext.group)]

\* A group name without the digits the host added to make it unique
RECURSIVE StripDigits(_)
StripDigits(s) ==
    IF s # <<>> /\ s[Len(s)] \in Range(Digits) THEN StripDigits(SubSeq(s, 1, Len(s) - 1))
    ELSE s

\* The suffixes of the created groups above a node, from the innermost group
\* to the most external one
RECURSIVE NestingAbove(_, _, _)
NestingAbove(par, created, node) ==
    IF par[node] = NoParent \/ par[node][1] \notin created THEN <<>>
    ELSE LET group == StripDigits(par[node][1])
         IN  <<SubSeq(group, StrRFind(group, <<"_">>) + 2, Len(group))>>
                 \o NestingAbove(par, created, par[node][1])

create_group_parent(target, custom_structure, replace_suffix, reparent) ==
    LET end == create_group_parent_on(parent, target, custom_structure,
                                      replace_suffix, reparent)
    IN  /\ call' = [fn |-> "create_group_parent", target |-> target,
                    custom_structure |-> custom_structure,
                    replace_suffix |-> replace_suffix, reparent |-> reparent]
        /\ preParent' = parent
        /\ parent' = end.par
        /\ nodeType' = [n \in DOMAIN end.par |-> "transform"]
        /\ callerList' = end.list
        /\ result' = <<end.returned>>
        /\ outcome' = "returned"
        /\ messages' = <<>>
        /\ frame' = [target |-> target, previous |-> frame,
                     nesting |-> NestingAbove(end.par, DOMAIN end.par \ DOMAIN parent, target)]
        /\ UNCHANGED selection

rig == <<"r","i","g">>
arm_ctrl == <<"a","r","m","_","c","t","r","l">>
leg == <<"l","e","g">>
arm_ctrl_offset == arm_ctrl \o <<"_">> \o Str_offset

GroupTargets == {arm_ctrl, leg}

InitGroups ==
    /\ call = NoCall
    /\ outcome = "none"
    /\ messages = <<>>
    /\ selection = <<>>
    /\ calls = 0
    /\ parent \in {(rig :> NoParent) @@ (arm_ctrl :> <<rig>>) @@ (leg :> NoParent),
                   (rig :> NoParent) @@ (arm_ctrl :> <<rig>>) @@ (leg :> NoParent)
                       @@ (arm_ctrl_offset :> <<rig>>)}
    /\ nodeType = [n \in DOMAIN parent |-> "transform"]
    /\ preParent = parent
    /\ callerList = <<>>
    /\ result = <<>>
    /\ frame = <<>>
    /\ IdleSel /\ IdleAttr /\ IdlePivot /\ files = {} /\ IdleRig

CreateGroupParent ==
    /\ FirstCall
    /\ \E target \in GroupTargets,
          custom_structure \in DistinctSeqs({Str_offset, Str_driver, Str_world}, MaxStructure),
          replace_suffix \in BOOLEAN, reparent \in BOOLEAN :
           create_group_parent(target, custom_structure, replace_suffix, reparent)
    /\ UNCHANGED notHierVars

\* The caller passes the same list object to a second call
CreateGroupParentAgain ==
    /\ calls = 1 /\ calls' = 2
    /\ call.fn = "create_group_parent"
    /\ \E target \in GroupTargets :
           create_group_parent(target, callerList, call.replace_suffix, call.reparent)
    /\ UNCHANGED notHierVars

NextGroups == CreateGroupParent \/ CreateGroupParentAgain

SpecGroups == InitGroups /\ [][NextGroups]_vars

\* The groups the last call created
CreatedGroups == DOMAIN parent \ DOMAIN preParent

\* C2: create_group_parent returns the most external created group, the one
\* whose parent is no created group, for the default structure and for any
\* non-empty custom_structure.
C2_ReturnsMostExternalGroup ==
    call.fn = "create_group_parent" =>
        /\ result[1] \in CreatedGroups
        /\ \/ parent[result[1]] = NoParent
           \/ parent[result[1]][1] \notin CreatedGroups

\* C2 holds of the default structure and of a custom_structure of one item
C2_DefaultOrSingleItem ==
    (call.fn = "create_group_parent" /\ Len(call.custom_structure) <= 1) =>
        C2_ReturnsMostExternalGroup

\* ------------------------------------------------------------ joints

\* cmds.listRelatives(node, children=True) as a set ({} for None)
ChildrenOf(par, node) == {c \in DOMAIN par : par[c] = <<node>>}

\* A node and everything below it
RECURSIVE DescendantsOrSelf(_, _)
DescendantsOrSelf(par, node) ==
    {node} \cup UNION {DescendantsOrSelf(par, c) : c \in ChildrenOf(par, node)}

\* cmds.parent(node, world=True)
parent_to_world(par, node) == [par EXCEPT ![node] = NoParent]

\* cmds.delete(node): the node goes with everything below it
delete_node(par, node) ==
    [n \in DOMAIN par \ DescendantsOrSelf(par, node) |-> par[n]]

\* joint_helpers.__get_selection: [error, locators, joints]; error is the
\* message of the raised exception, "" when none is raised
joint_get_selection_any_count(sel, types) ==
    LET half == Len(sel) \div 2 IN
    IF \E idx \in 1..half : types[sel[idx]] # "joint"
    THEN [error |-> "Please select the joints first.",
          locators |-> <<>>, joints |-> <<>>]
    ELSE [error |-> "", locators |-> SubSeq(sel, half + 1, Len(sel)),
          joints |-> SubSeq(sel, 1, half)]

joint_get_selection(sel, types) ==
    LET half == Len(sel) \div 2 IN
    IF Len(sel) % 2 # 0
    THEN [error |-> "The number of locators and joints should be the same.",
          locators |-> <<>>, joints |-> <<>>]
    ELSE IF \E idx \in 1..half : types[sel[idx]] # "joint"
    THEN [error |-> "Please select the joints first.",
          locators |-> <<>>, joints |-> <<>>]
    ELSE [error |-> "", locators |-> SubSeq(sel, half + 1, Len(sel)),
          joints |-> SubSeq(sel, 1, half)]

\* __unparent_joints_and_children
RECURSIVE AllToWorld(_, _)
AllToWorld(par, nodes) ==
    IF nodes = {} THEN par
    ELSE LET n == CHOOSE x \in nodes : TRUE
         IN  AllToWorld(parent_to_world(par, n), nodes \ {n})

unparent_joints_and_children(par, joints, children_joints) ==
    AllToWorld(IF par[joints[1]] # NoParent THEN parent_to_world(par, joints[1]) ELSE par,
               children_joints)

\* The name the host gives a new joint asked to be called name
UniqueJointName(st, name) ==
    IF name \notin DOMAIN st.par THEN name ELSE name \o "1"

\* The first loop of __create_joint_chain_from_locators: one joint per
\* locator, made at the scene root.  st is [par, types, raised]; cmds.xform
\* raises on a locator that no longer exists.
RECURSIVE CreateJointsLoop(_, _, _, _)
CreateJointsLoop(st, locators, joints_names, idx) ==
    IF idx > Len(locators) \/ st.raised THEN st
    ELSE IF locators[idx] \notin DOMAIN st.par
    THEN [st EXCEPT !.raised = TRUE]
    ELSE LET made == UniqueJointName(st, joints_names[idx])
         IN  CreateJointsLoop([par |-> (made :> NoParent) @@ st.par,
                               types |-> (made :> "joint") @@ st.types,
                               raised |-> FALSE],
                              locators, joints_names, idx + 1)

\* __reparent_joints: names[-idx] goes under names[-idx-1], from the tip up
RECURSIVE reparent_joints_skip_root(_, _, _)
reparent_joints_skip_root(par, names, idx) ==
    IF idx >= Len(names) - 1 THEN par
    ELSE reparent_joints_skip_root(
             parent_under(par, names[Len(names) + 1 - idx], names[Len(names) - idx]),
             names, idx + 1)

RECURSIVE reparent_joints(_, _, _)
reparent_joints(par, names, idx) ==
    IF idx >= Len(names) THEN par
    ELSE reparent_joints(
             parent_under(par, names[Len(names) + 1 - idx], names[Len(names) - idx]),
             names, idx + 1)

RECURSIVE AllUnder(_, _, _)
AllUnder(par, nodes, new_parent) ==
    IF nodes = {} THEN par
    ELSE LET n == CHOOSE x \in nodes : TRUE
         IN  AllUnder(parent_under(par, n, new_parent), nodes \ {n}, new_parent)

\* replace_joints_from_locators once the selection is accepted and holds a
\* joint: [par, types, raised].  The aim constraints that
\* __aim_joint_to_next_joint and __re_aim_after_cleaning_rotations make are
\* deleted before they return and leave the hierarchy as it was.
replace_chain(par, types, joints, locators) ==
    LET root_joint == joints[1]
        last_joint == joints[Len(joints)]
        parent_joint == par[root_joint]
        children_joints == ChildrenOf(par, last_joint)
        par1 == unparent_joints_and_children(par, joints, children_joints)
        par2 == delete_node(par1, root_joint)
        types2 == [n \in DOMAIN par2 |-> types[n]]
    IN  IF Len(locators) # 3
        THEN \* __get_plane_normal(*locators) takes exactly three arguments
             [par |-> par2, types |-> types2, raised |-> TRUE]
        ELSE IF \E i \in DOMAIN locators : locators[i] \notin DOMAIN par2
        THEN \* cmds.xform in __get_plane_normal on a deleted locator
             [par |-> par2, types |-> types2, raised |-> TRUE]
        ELSE LET made == CreateJointsLoop([par |-> par2, types |-> types2, raised |-> FALSE],
                                          locators, joints, 1)
                 par3 == reparent_joints(made.par, joints, 1)
                 par4 == IF parent_joint # NoParent
                         THEN parent_under(par3, root_joint, parent_joint[1])
                         ELSE par3
                 par5 == AllUnder(par4, children_joints, last_joint)
             IN  [par |-> par5, types |-> made.types, raised |-> FALSE]

replace_joints_from_locators(sel) ==
    LET got == joint_get_selection(sel, nodeType) IN
    /\ call' = [fn |-> "replace_joints_from_locators", sel |-> sel]
    /\ preParent' = parent
    /\ result' = <<>>
    /\ UNCHANGED callerList
    /\ IF got.error # ""
       THEN /\ outcome' = "raised"
            /\ messages' = <<got.error>>
            /\ selection' = sel
            /\ frame' = <<>>
            /\ UNCHANGED <<parent, nodeType>>
       ELSE IF got.joints = <<>>
       THEN \* joints[0] on the empty list
            /\ outcome' = "raised"
            /\ messages' = <<"list index out of range">>
            /\ selection' = <<>>
            /\ frame' = [joints |-> got.joints, locators |-> got.locators]
            /\ UNCHANGED <<parent, nodeType>>
       ELSE LET end == replace_chain(parent, nodeType, got.joints, got.locators)
            IN  /\ outcome' = IF end.raised THEN "raised" ELSE "returned"
                /\ messages' = <<>>
                /\ selection' = <<>>
                /\ frame' = [joints |-> got.joints, locators |-> got.locators]
                /\ parent' = end.par
                /\ nodeType' = end.types

\* The joints of the scene: hip above the chain joint1 > joint2 > joint3,
\* twist a side branch of joint2; hand is a transform under joint3
ChainJoints == <<"joint1", "joint2", "joint3">>
LocatorLike == {"loc1", "loc2", "loc3", "hand"}

JointScene(root_parent, with_hand, with_twist, loc3_parent) ==
    [n \in {"hip", "joint1", "joint2", "joint3", "guides", "loc1", "loc2", "loc3"}
           \cup (IF with_hand THEN {"hand"} ELSE {})
           \cup (IF with_twist THEN {"twist"} ELSE {}) |->
        CASE n = "joint1" -> root_parent
          [] n = "joint2" -> <<"joint1">>
          [] n = "joint3" -> <<"joint2">>
          [] n = "twist" -> <<"joint2">>
          [] n = "hand" -> <<"joint3">>
          [] n = "loc2" -> <<"guides">>
          [] n = "loc3" -> loc3_parent
          [] OTHER -> NoParent]

JointSceneType(n) ==
    IF n \in {"hip", "joint1", "joint2", "joint3", "twist"} THEN "joint" ELSE "transform"

InitJoints ==
    /\ call = NoCall
    /\ outcome = "none"
    /\ messages = <<>>
    /\ selection = <<>>
    /\ calls = 0
    /\ \E root_parent \in {NoParent, <<"hip">>}, with_hand \in BOOLEAN,
          with_twist \in BOOLEAN, loc3_parent \in {NoParent, <<"joint3">>} :
           parent = JointScene(root_parent, with_hand, with_twist, loc3_parent)
    /\ nodeType = [n \in DOMAIN parent |-> JointSceneType(n)]
    /\ preParent = parent
    /\ callerList = <<>>
    /\ result = <<>>
    /\ frame = <<>>
    /\ IdleSel /\ IdleAttr /\ IdlePivot /\ files = {} /\ IdleRig

\* The selections tried: joints of the chain in hierarchy order (hand put
\* among them in some), then locators
JointParts ==
    {<<>>, <<"joint1">>, <<"joint3">>, <<"joint1", "joint2">>, <<"joint2", "joint3">>,
     ChainJoints, <<"hand", "joint2", "joint3">>, <<"joint1", "hand", "joint3">>,
     <<"joint1", "joint2", "hand">>}

JointSelections ==
    {s \in {js \o ls : js \in JointParts, ls \in DistinctSeqs(LocatorLike, MaxSel)} :
         Cardinality(Range(s)) = Len(s) /\ Range(s) \subseteq DOMAIN parent}

ReplaceJointsFromLocators ==
    /\ FirstCall
    /\ \E sel \in JointSelections : replace_joints_from_locators(sel)
    /\ UNCHANGED notHierVars

NextJoints == ReplaceJointsFromLocators

SpecJoints == InitJoints /\ [][NextJoints]_vars

\* The scene is as it was before the call
HierarchyUntouched == parent = preParent /\ DOMAIN nodeType = DOMAIN preParent

\* C8: replace_joints_from_locators raises "The number of locators and
\* joints should be the same." on an odd number of selected items and
\* "Please select the joints first." when an item of the first half is no
\* joint, both before anything is unparented, deleted or created; otherwise
\* the joints and locators lists are the two halves of the selection, of
\* equal length and in selection order.
C8_SelectionIsValidatedFirst ==
    call.fn = "replace_joints_from_locators" =>
        LET half == Len(call.sel) \div 2 IN
        IF Len(call.sel) % 2 = 1
        THEN /\ outcome = "raised"
             /\ messages = <<"The number of locators and joints should be the same.">>
             /\ HierarchyUntouched
        ELSE IF \E i \in 1..half : JointSceneType(call.sel[i]) # "joint"
        THEN /\ outcome = "raised"
             /\ messages = <<"Please select the joints first.">>
             /\ HierarchyUntouched
        ELSE /\ Len(frame.joints) = Len(frame.locators)
             /\ frame.joints \o frame.locators = call.sel

\* A selection of three items, all joints, was refused for its odd count
C8_Witness ==
    /\ call.fn = "replace_joints_from_locators"
    /\ call.sel = ChainJoints
    /\ outcome = "raised"

invert_shape_with_blendshapes_params == {}

\* The keyword arguments generate_delta passes to it
invert_shape_with_blendshapes_keywords == {"cancel_blendshapes"}

\* A Python call raises TypeError on a keyword the function does not declare
CallRaisesTypeError(keywords, params) == ~(keywords \subseteq params)

\* The name the host gives a node asked to be called name
UniqueMeshName(par, name) == IF name \notin DOMAIN par THEN name ELSE name \o "1"

\* generate_delta.  sel is the host selection at entry, read under
\* from_selection.  cmds.invertShape() adds the inverted mesh to the scene;
\* cmds.rename returns the name the host gave.
generate_delta(original_mesh, corrective_mesh, destination_path, from_selection, negate_blendshapes, suffix, sel) ==
    /\ call' = [fn |-> "generate_delta", original_mesh |-> original_mesh,
                corrective_mesh |-> corrective_mesh,
                destination_path |-> destination_path,
                from_selection |-> from_selection,
                negate_blendshapes |-> negate_blendshapes, suffix |-> suffix,
                sel |-> sel]
    /\ preParent' = parent
    /\ messages' = <<>>
    /\ UNCHANGED <<callerList, frame>>
    /\ IF from_selection /\ Len(sel) < 2
       THEN \* cmds.ls(selection=True)[1] (or [0]) is out of range
            /\ outcome' = "raised"
            /\ selection' = sel
            /\ result' = <<>>
            /\ UNCHANGED <<parent, nodeType, files>>
       ELSE LET original == IF from_selection THEN sel[1] ELSE original_mesh
                corrective == IF from_selection THEN sel[2] ELSE corrective_mesh
                selected == IF from_selection THEN sel ELSE <<original, corrective>>
            IN  IF negate_blendshapes
                      /\ CallRaisesTypeError(invert_shape_with_blendshapes_keywords,
                                             invert_shape_with_blendshapes_params)
                THEN /\ outcome' = "raised"
                     /\ selection' = selected
                     /\ result' = <<>>
                     /\ UNCHANGED <<parent, nodeType, files>>
                ELSE LET delta_name == UniqueMeshName(parent, corrective \o "_" \o suffix)
                     IN  /\ parent' = (delta_name :> NoParent) @@ parent
                         /\ nodeType' = (delta_name :> "mesh") @@ nodeType
                         /\ result' = <<delta_name>>
                         /\ outcome' = "returned"
                         /\ IF destination_path # ""
                            THEN /\ files' = files \cup
                                       {destination_path \o "/" \o delta_name \o ".ma"}
                                 /\ selection' = <<delta_name>>
                            ELSE /\ UNCHANGED files
                                 /\ selection' = selected

DeltaMeshes == {"body", "body_fix"}

InitDelta ==
    /\ call = NoCall
    /\ outcome = "none"
    /\ messages = <<>>
    /\ selection = <<>>
    /\ calls = 0
    /\ parent = [n \in DeltaMeshes |-> NoParent]
    /\ nodeType = [n \in DeltaMeshes |-> "mesh"]
    /\ preParent = parent
    /\ callerList = <<>>
    /\ result = <<>>
    /\ frame = <<>>
    /\ files = {}
    /\ IdleSel /\ IdleAttr /\ IdlePivot /\ IdleRig

GenerateDelta ==
    /\ Called
    /\ \E original_mesh \in DeltaMeshes, corrective_mesh \in DeltaMeshes,
          destination_path \in {"", "out"}, negate_blendshapes \in BOOLEAN,
          suffix \in {"dlt", "fix"} :
           /\ original_mesh # corrective_mesh
           /\ generate_delta(original_mesh, corrective_mesh, destination_path, FALSE,
                             negate_blendshapes, suffix, <<>>)
    /\ UNCHANGED notHierFileVars

GenerateDeltaFromSelection ==
    /\ Called
    /\ \E sel \in DistinctSeqs(DeltaMeshes, MaxSel), destination_path \in {"", "out"},
          negate_blendshapes \in BOOLEAN, suffix \in {"dlt", "fix"} :
           generate_delta("", "", destination_path, TRUE, negate_blendshapes, suffix, sel)
    /\ UNCHANGED notHierFileVars

NextDelta == GenerateDelta \/ GenerateDeltaFromSelection

SpecDelta == InitDelta /\ [][NextDelta]_vars

\* The corrective mesh of the last generate_delta call
CorrectiveOf(c) == IF c.from_selection THEN c.sel[2] ELSE c.corrective_mesh

\* C10: given two meshes, generate_delta returns the name of the generated
\* delta mesh, "<corrective_mesh>_<suffix>", with negate_blendshapes=True as
\* with negate_blendshapes=False.
C10_DeltaIsReturned ==
    (/\ call.fn = "generate_delta"
     /\ call.from_selection => Len(call.sel) >= 2
     /\ (CorrectiveOf(call) \o "_" \o call.suffix) \notin DOMAIN preParent) =>
        /\ outcome = "returned"
        /\ result = <<CorrectiveOf(call) \o "_" \o call.suffix>>
        /\ result[1] \in DOMAIN parent

\* C10 holds of the calls with negate_blendshapes=False
C10_WithoutNegate ==
    (call.fn = "generate_delta" /\ ~call.negate_blendshapes) => C10_DeltaIsReturned

\* ------------------------------------------------- pose interpolators

MaxTriggers == 2

\* An optional argument: <<>> is None, <<v>> is the value v
None == <<>>

\* "{0}".format(v) of an optional string
Format(v) == IF v = None THEN "None" ELSE v[1]

\* attributes_helpers.name: "{0}.{1}".format(node, attr_name)
plug_name(node, attr) == Format(node) \o "." \o Format(attr)

\* "output[{0}]".format(pose_index)
output_plug(pose_index) == "output[" \o ToString(pose_index) \o "]"

\* The attributes a node of each type has
AttrsOfType(type) ==
    CASE type = "poseInterpolator" -> {output_plug(i) : i \in 0..3}
      [] type = "blendShape"       -> {"smile", "jaw_open"}
      [] type = "multiplyDivide"   -> {"input1X", "input2X", "outputX"}
      [] OTHER                     -> {}

\* The plugs of the scene, as cmds.connectAttr resolves them
ExistingPlugs(types) ==
    UNION {{plug_name(<<n>>, <<a>>) : a \in AttrsOfType(types[n])} : n \in DOMAIN types}

\* cmds.connectAttr(src, dst): raises when a plug does not exist or dst already
\* has an incoming connection
connectAttr_raises(types, conns, src, dst) ==
    \/ src \notin ExistingPlugs(types)
    \/ dst \notin ExistingPlugs(types)
    \/ \E c \in conns : c[2] = dst

\* The first loop of create_pose: keep each controller value, then set it
RECURSIVE SetTriggersLoop(_, _, _)
SetTriggersLoop(vals, original_controller_values, todo) ==
    IF todo = <<>> THEN [attrs |-> vals, originals |-> original_controller_values]
    ELSE LET controller_value == Head(todo) IN
         SetTriggersLoop([vals EXCEPT ![controller_value[1]] = controller_value[2]],
                         Append(original_controller_values, vals[controller_value[1]]),
                         Tail(todo))

\* The second loop of create_pose: set each controller to the value kept for
\* its index, from the first entry to the last
RECURSIVE RestoreTriggersLoop(_, _, _, _)
RestoreTriggersLoop(vals, original_controller_values, trigger_values, idx) ==
    IF idx > Len(trigger_values) THEN vals
    ELSE RestoreTriggersLoop(
             [vals EXCEPT ![trigger_values[idx][1]] = original_controller_values[idx]],
             original_controller_values, trigger_values, idx + 1)

\* create_pose.  poseInterpolatorAddShapePose records the pose the controllers
\* are in and gives back its index; it fails on a missing interpolator.
create_pose(pose_interpolator_name, name, poseType, blendshape, blendshape_target, trigger_values) ==
    /\ call' = [fn |-> "create_pose", pose_interpolator_name |-> pose_interpolator_name,
                name |-> name, poseType |-> poseType, blendshape |-> blendshape,
                blendshape_target |-> blendshape_target,
                trigger_values |-> trigger_values]
    /\ preAttrs' = attrs
    /\ preScene' = connections
    /\ messages' = <<>>
    /\ UNCHANGED <<nodeType, frame>>
    /\ LET posed == SetTriggersLoop(attrs, <<>>, trigger_values) IN
       IF pose_interpolator_name \notin DOMAIN poses
       THEN /\ attrs' = posed.attrs
            /\ outcome' = "raised"
            /\ result' = <<>>
            /\ UNCHANGED <<poses, connections>>
       ELSE LET pose_index == Len(poses[pose_interpolator_name])
                src == plug_name(<<pose_interpolator_name>>, <<output_plug(pose_index)>>)
                dst == plug_name(blendshape, blendshape_target)
            IN  /\ poses' = [poses EXCEPT ![pose_interpolator_name] =
                                Append(@, [name |-> name, poseType |-> poseType,
                                           pose |-> posed.attrs])]
                /\ attrs' = RestoreTriggersLoop(posed.attrs, posed.originals,
                                                trigger_values, 1)
                /\ IF blendshape # None /\ blendshape_target # None
                   THEN IF connectAttr_raises(nodeType, connections, src, dst)
                        THEN /\ outcome' = "raised"
                             /\ result' = <<>>
                             /\ UNCHANGED connections
                        ELSE /\ connections' = connections \cup {<<src, dst>>}
                             /\ outcome' = "returned"
                             /\ result' = <<pose_index>>
                   ELSE /\ outcome' = "returned"
                        /\ result' = <<pose_index>>
                        /\ UNCHANGED connections

\* The name the host gives a node created as name
UniqueNodeName(types, name) == IF name \notin DOMAIN types THEN name ELSE name \o "1"

\* The connections create_combined_pose asks for, in order
combined_pose_connections(combine_node, pose_interpolator1, pose_index1, pose_interpolator2, pose_index2, blendshape, blendshape_target) ==
    << <<plug_name(<<pose_interpolator1>>, <<output_plug(pose_index1)>>),
         plug_name(<<combine_node>>, <<"input1X">>)>>,
       <<plug_name(<<pose_interpolator2>>, <<output_plug(pose_index2)>>),
         plug_name(<<combine_node>>, <<"input2X">>)>>,
       <<plug_name(<<combine_node>>, <<"outputX">>),
         plug_name(blendshape, blendshape_target)>> >>

\* cmds.connectAttr called on each pair in turn, up to the first that raises
RECURSIVE ConnectLoop(_, _, _)
ConnectLoop(types, st, todo) ==
    IF todo = <<>> \/ st.raised THEN st
    ELSE IF connectAttr_raises(types, st.conns, Head(todo)[1], Head(todo)[2])
         THEN [st EXCEPT !.raised = TRUE]
         ELSE ConnectLoop(types, [st EXCEPT !.conns = @ \cup {Head(todo)}], Tail(todo))

create_combined_pose(pose_interpolator1, pose_index1, pose_interpolator2, pose_index2, name, blendshape, blendshape_target) ==
    /\ call' = [fn |-> "create_combined_pose",
                pose_interpolator1 |-> pose_interpolator1, pose_index1 |-> pose_index1,
                pose_interpolator2 |-> pose_interpolator2, pose_index2 |-> pose_index2,
                name |-> name, blendshape |-> blendshape,
                blendshape_target |-> blendshape_target]
    /\ preAttrs' = attrs
    /\ preScene' = connections
    /\ messages' = <<>>
    /\ UNCHANGED <<attrs, poses>>
    /\ LET combine_node == UniqueNodeName(nodeType, name \o "_multi")
           types == (combine_node :> "multiplyDivide") @@ nodeType
           done == ConnectLoop(types, [conns |-> connections, raised |-> FALSE],
                       combined_pose_connections(combine_node, pose_interpolator1,
                           pose_index1, pose_interpolator2, pose_index2,
                           blendshape, blendshape_target))
       IN  /\ nodeType' = types
           /\ connections' = done.conns
           /\ outcome' = IF done.raised THEN "raised" ELSE "returned"
           /\ frame' = [combine_node |-> combine_node]
           /\ result' = <<>>


notPoseVars == <<selection, userAttrs, proxies, skin, locked, attrOrder, pivotVars, parent, preParent, callerList, fileVars, cvs, exports>>

PoseInterpolators == {"jaw_pi", "arm_pi"}
ControllerPlugs == {"jaw_ctrl.rz", "arm_ctrl.ry"}
TriggerValues == {30, 45}

\* The blendshape / blendshape_target arguments a caller gives
BlendshapeArgs ==
    {<<None, None>>, <<<<"blendShape1">>, <<"smile">>>>, <<<<"blendShape1">>, <<"jaw_open">>>>,
     <<<<"blendShape1">>, None>>}

\* The trigger_values lists a caller gives
RECURSIVE TriggerLists(_)
TriggerLists(n) ==
    IF n = 0 THEN {<<>>}
    ELSE LET shorter == TriggerLists(n - 1) IN
         shorter \cup {Append(t, <<p, v>>) : t \in {u \in shorter : Len(u) = n - 1},
                                             p \in ControllerPlugs, v \in TriggerValues}

InitPoses ==
    /\ call = NoCall
    /\ outcome = "none"
    /\ messages = <<>>
    /\ selection = <<>>
    /\ calls = 0
    /\ attrs \in [ControllerPlugs -> {0, 10}]
    /\ preAttrs = attrs
    /\ \E clash \in BOOLEAN :
           nodeType = [n \in PoseInterpolators \cup {"blendShape1"}
                              \cup (IF clash THEN {"combinedPose1_multi"} ELSE {}) |->
                          IF n \in PoseInterpolators THEN "poseInterpolator"
                          ELSE IF n = "blendShape1" THEN "blendShape"
                          ELSE "multiplyDivide"]
    /\ \E first \in BOOLEAN :
           poses = [n \in PoseInterpolators |->
                       IF first /\ n = "jaw_pi"
                       THEN <<[name |-> "pose0", poseType |-> "swing", pose |-> attrs]>>
                       ELSE <<>>]
    /\ connections \in {{}, {<<"jaw_pi.output[0]", "blendShape1.smile">>}}
    /\ preScene = connections
    /\ result = <<>> /\ frame = <<>>
    /\ userAttrs = <<>> /\ proxies = {} /\ skin = <<>>
    /\ locked = {} /\ attrOrder = <<>>
    /\ IdlePivot
    /\ parent = <<>> /\ preParent = <<>> /\ callerList = <<>>
    /\ files = {} /\ cvs = <<>> /\ exports = <<>>

CreatePose ==
    /\ FirstCall
    /\ \E pose_interpolator_name \in PoseInterpolators \cup {"lost_pi"},
          b \in BlendshapeArgs, trigger_values \in TriggerLists(MaxTriggers) :
           create_pose(pose_interpolator_name, "pose1", "swing", b[1], b[2], trigger_values)
    /\ UNCHANGED notPoseVars

CreateCombinedPose ==
    /\ FirstCall
    /\ \E pose_interpolator1 \in PoseInterpolators \cup {"lost_pi"},
          pose_interpolator2 \in PoseInterpolators,
          pose_index1 \in 0..1, pose_index2 \in 0..1, b \in BlendshapeArgs :
           create_combined_pose(pose_interpolator1, pose_index1, pose_interpolator2,
                                pose_index2, "combinedPose1", b[1], b[2])
    /\ UNCHANGED notPoseVars

NextPoses == CreatePose \/ CreateCombinedPose

SpecPoses == InitPoses /\ [][NextPoses]_vars

\* The two connections of the pose outputs to the combine node
PoseOutputConnections ==
    {<<plug_name(<<call.pose_interpolator1>>, <<output_plug(call.pose_index1)>>),
       plug_name(<<frame.combine_node>>, <<"input1X">>)>>,
     <<plug_name(<<call.pose_interpolator2>>, <<output_plug(call.pose_index2)>>),
       plug_name(<<frame.combine_node>>, <<"input2X">>)>>}

\* The connection of the combine node to the blendshape target
BlendshapeConnection ==
    <<plug_name(<<frame.combine_node>>, <<"outputX">>),
      plug_name(call.blendshape, call.blendshape_target)>>

\* A create_combined_pose call on existing interpolators, with blendshape and
\* target both left at None or both naming a free blendshape attribute
CombinedPoseCallIsValid ==
    /\ call.fn = "create_combined_pose"
    /\ call.pose_interpolator1 \in PoseInterpolators
    /\ call.pose_interpolator2 \in PoseInterpolators
    /\ (call.blendshape = None) = (call.blendshape_target = None)
    /\ call.blendshape # None =>
           /\ BlendshapeConnection[2] \in ExistingPlugs(nodeType)
           /\ \A c \in preScene : c[2] # BlendshapeConnection[2]

\* C11: create_combined_pose treats blendshape and blendshape_target as
\* optional: with a blendshape and target informed the call connects the two
\* pose outputs and the multiplyDivide output, and with both left at None the
\* call completes having connected only the two pose outputs.
C11_BlendshapeIsOptional ==
    CombinedPoseCallIsValid =>
        /\ outcome = "returned"
        /\ connections \ preScene =
               IF call.blendshape = None THEN PoseOutputConnections
               ELSE PoseOutputConnections \cup {BlendshapeConnection}

\* C11 holds of the calls that inform a blendshape and a target
C11_WithBlendshape ==
    (CombinedPoseCallIsValid /\ call.blendshape # None) => C11_BlendshapeIsOptional

\* Left at None, the call makes the two pose connections and then raises
C11_NoneRaisesAfterTwoConnections ==
    (CombinedPoseCallIsValid /\ call.blendshape = None) =>
        outcome = "raised" /\ connections \ preScene = PoseOutputConnections

\* C15: when create_pose returns, every controller attribute named in
\* trigger_values holds the value it had before the call, the same attribute
\* being listed once or more than once.
C15_ControllersRestored ==
    (call.fn = "create_pose" /\ outcome = "returned") =>
        \A i \in DOMAIN call.trigger_values :
            attrs[call.trigger_values[i][1]] = preAttrs[call.trigger_values[i][1]]

\* C15 holds of the lists that name each controller attribute once
C15_DistinctControllers ==
    (/\ call.fn = "create_pose"
     /\ \A i, j \in DOMAIN call.trigger_values :
            call.trigger_values[i][1] = call.trigger_values[j][1] => i = j) =>
        C15_ControllersRestored

\* ----------------------------------------------------------- shapes

\* The parameters def find_middle_point(transforms) declares, and the
\* arguments scale_shapes passes in find_middle_point()
find_middle_point_params == <<"transforms">>
find_middle_point_args == <<>>

\* A Python call raises TypeError when a required positional argument is missing
MissingArgument(params, args) == Len(args) < Len(params)

\* The factor argument: None, a number, or a list of three of these
NoFactor == [kind |-> "none"]
NumberFactor(f) == [kind |-> "number", value |-> f]
ListFactor(l) == [kind |-> "list", value |-> l]

\* if not isinstance(factor, list): factor = [factor, factor, factor]
factor_as_list(factor) ==
    IF factor.kind = "list" THEN factor.value ELSE <<factor, factor, factor>>

\* cmds.listRelatives(transform, children=True, shapes=True): <<>> is None
ShapesOf(par, shapes, transform) ==
    {sh \in DOMAIN shapes : par[sh] = <<transform>>}

\* '{0}.cv[{1}]' of each control vertex of a shape, in order
CvNames(shapes, sh) ==
    [i \in 1..Len(shapes[sh]) |-> sh \o ".cv[" \o ToString(i - 1) \o "]"]

\* The shapes of the scene in the order cmds.listRelatives lists them
ShapeOrder == <<"circle_ctrlShape", "cross_ctrlShape", "cross_ctrlShape1">>

\* __select_all_shapes_cvs: the selection it leaves
RECURSIVE SelectCvsLoop(_, _, _, _)
SelectCvsLoop(par, shapes, transform, idx) ==
    IF idx > Len(ShapeOrder) THEN <<>>
    ELSE (IF ShapeOrder[idx] \in ShapesOf(par, shapes, transform)
          THEN CvNames(shapes, ShapeOrder[idx]) ELSE <<>>)
         \o SelectCvsLoop(par, shapes, transform, idx + 1)

Min(S) == CHOOSE x \in S : \A y \in S : x <= y
Max(S) == CHOOSE x \in S : \A y \in S : x >= y

\* find_middle_point: the centre of the bounding box of a set of points
find_middle_point(points) ==
    [k \in 1..3 |-> (Min({pt[k] : pt \in points}) + Max({pt[k] : pt \in points})) \div 2]

\* cmds.xform(scale=factor) about the pivot
ScaleAbout(pt, pivot, factor) ==
    [k \in 1..3 |-> pivot[k] + factor[k].value * (pt[k] - pivot[k])]

\* The control vertices of the shapes of a transform scaled about their middle
ScaledCvs(par, shapes, transform, factor) ==
    LET mine == ShapesOf(par, shapes, transform)
        points == UNION {Range(shapes[sh]) : sh \in mine}
        scale_pivot == find_middle_point(points)
    IN  [sh \in DOMAIN shapes |->
            IF sh \in mine
            THEN [i \in 1..Len(shapes[sh]) |-> ScaleAbout(shapes[sh][i], scale_pivot, factor)]
            ELSE shapes[sh]]

\* scale_shapes.  pivots[transform] holds the world translation of the
\* transform and the world position of its pivots.
scale_shapes(transform, factor) ==
    /\ call' = [fn |-> "scale_shapes", transform |-> transform, factor |-> factor]
    /\ prePivots' = pivots
    /\ preScene' = cvs
    /\ messages' = <<>>
    /\ LET factor3 == factor_as_list(factor)
           original_pivot == pivots[transform].translation
           selected == SelectCvsLoop(parent, cvs, transform, 1)
       IN  IF ShapesOf(parent, cvs, transform) = {}
           THEN \* for shape in None
                /\ outcome' = "raised"
                /\ selection' = <<>>
                /\ UNCHANGED <<cvs, pivots>>
           ELSE IF MissingArgument(find_middle_point_params, find_middle_point_args)
           THEN /\ outcome' = "raised"
                /\ selection' = selected
                /\ UNCHANGED <<cvs, pivots>>
           ELSE IF \E k \in 1..3 : factor3[k].kind # "number"
           THEN \* the pivots are at the middle point when cmds.xform(scale=) raises
                /\ outcome' = "raised"
                /\ selection' = selected
                /\ pivots' = [pivots EXCEPT ![transform].pivot =
                                 find_middle_point(UNION {Range(cvs[sh]) :
                                     sh \in ShapesOf(parent, cvs, transform)})]
                /\ UNCHANGED cvs
           ELSE /\ cvs' = ScaledCvs(parent, cvs, transform, factor3)
                /\ pivots' = [pivots EXCEPT ![transform].pivot = original_pivot]
                /\ selection' = <<>>
                /\ outcome' = "returned"


notShapeVars == <<userAttrs, proxies, skin, attrVars, parent, nodeType, preParent, callerList, result, frame, fileVars, connections, poses, exports>>

ShapeTransforms == {"circle_ctrl", "cross_ctrl", "empty_grp"}
CvPoints == {<<0, 0, 0>>, <<2, 0, 0>>, <<2, 4, 0>>}
ShapeFactors ==
    {NoFactor, NumberFactor(2),
     ListFactor(<<NumberFactor(1), NumberFactor(2), NumberFactor(3)>>)}

InitShapes ==
    /\ call = NoCall
    /\ outcome = "none"
    /\ messages = <<>>
    /\ selection \in {<<>>, <<"empty_grp">>}
    /\ calls = 0
    /\ parent = [n \in Range(ShapeOrder) \cup ShapeTransforms |->
                    IF n = "circle_ctrlShape" THEN <<"circle_ctrl">>
                    ELSE IF n \in Range(ShapeOrder) THEN <<"cross_ctrl">>
                    ELSE NoParent]
    /\ nodeType = [n \in Range(ShapeOrder) \cup ShapeTransforms |->
                      IF n \in ShapeTransforms THEN "transform" ELSE "nurbsCurve"]
    /\ preParent = parent
    /\ \E a, b, c, e \in CvPoints :
           cvs = [sh \in Range(ShapeOrder) |->
                     IF sh = "circle_ctrlShape" THEN <<a, b>>
                     ELSE IF sh = "cross_ctrlShape" THEN <<c>> ELSE <<e>>]
    /\ \E t, pv \in {ZeroPivot, MovedPivot} :
           pivots = [n \in ShapeTransforms |-> [translation |-> t, pivot |-> pv]]
    /\ prePivots = pivots
    /\ preScene = cvs
    /\ userAttrs = <<>> /\ proxies = {} /\ skin = <<>>
    /\ IdleAttr
    /\ callerList = <<>> /\ result = <<>> /\ frame = <<>>
    /\ files = {} /\ connections = {} /\ poses = <<>> /\ exports = <<>>

ScaleShapes ==
    /\ FirstCall
    /\ \E transform \in ShapeTransforms, factor \in ShapeFactors :
           scale_shapes(transform, factor)
    /\ UNCHANGED notShapeVars

NextShapes == ScaleShapes

SpecShapes == InitShapes /\ [][NextShapes]_vars

\* C12: scale_shapes(transform, factor) scales the CVs of all shapes of the
\* transform, a number f being handled as [f, f, f]; the call completes, and
\* on return the pivots of the transform are where they were before the call
\* and the selection is empty.
C12_ScaleShapes ==
    (/\ call.fn = "scale_shapes"
     /\ ShapesOf(parent, cvs, call.transform) # {}
     /\ call.factor # NoFactor) =>
        /\ outcome = "returned"
        /\ cvs = ScaledCvs(parent, preScene, call.transform, factor_as_list(call.factor))
        /\ pivots[call.transform].pivot = prePivots[call.transform].pivot
        /\ selection = <<>>

\* What the call does instead: it raises with the control vertices selected
\* and none of them moved
C12_RaisesWithCvsSelected ==
    (call.fn = "scale_shapes" /\ ShapesOf(parent, cvs, call.transform) # {}) =>
        /\ outcome = "raised"
        /\ cvs = preScene
        /\ pivots = prePivots
        /\ selection = SelectCvsLoop(parent, cvs, call.transform, 1)
        /\ selection # <<>>

\* ------------------------------------------------- skin weights export

\* str.split(sep)[-1]: what follows the last sep (the whole string when
\* sep is not in it)
SplitLast(s, sep) == SubSeq(s, StrRFind(s, sep) + 2, Len(s))

\* __get_name_without_namespace
get_name_without_namespace(name) ==
    LET clean_name == IF StrFind(name, <<":">>) # -1 THEN SplitLast(name, <<":">>) ELSE name
    IN  IF StrFind(clean_name, <<"|">>) # -1 THEN SplitLast(name, <<"|">>) ELSE clean_name

\* os.path.join(parent_dir, directory)
path_join(parent_dir, directory) == parent_dir \o "/" \o directory

\* "{0}_{1}_{2}.xml".format(mesh_without_namespace, id, suffix)
weights_file_name(mesh_without_namespace, id, suffix) ==
    mesh_without_namespace \o <<"_">> \o id \o <<"_">> \o suffix \o <<".","x","m","l">>

\* The transforms of the scene in the order cmds.listRelatives lists them
Path_grp == <<"|","g","r","p">>
Path_body == <<"|","g","r","p","|","b","o","d","y">>
Path_eye == <<"|","g","r","p","|","n","s",":","e","y","e">>
Path_sub == <<"|","g","r","p","|","s","u","b">>
Path_sub_eye == <<"|","g","r","p","|","s","u","b","|","e","y","e">>
Path_props == <<"|","p","r","o","p","s">>
TransformOrder == <<Path_grp, Path_body, Path_eye, Path_sub, Path_sub_eye, Path_props>>

\* cmds.listRelatives(mesh_grp, allDescendents=True, type="transform",
\* fullPath=True): None (<<>>) when there is none, else <<the list>>
RECURSIVE DescendantsInOrder(_, _, _)
DescendantsInOrder(par, node, idx) ==
    IF idx > Len(TransformOrder) THEN <<>>
    ELSE (IF TransformOrder[idx] # node
             /\ TransformOrder[idx] \in DescendantsOrSelf(par, node)
          THEN <<TransformOrder[idx]>> ELSE <<>>)
         \o DescendantsInOrder(par, node, idx + 1)

all_descendent_transforms(par, node) ==
    LET found == DescendantsInOrder(par, node, 1)
    IN  IF found = <<>> THEN None ELSE <<found>>

NoSkinWarning(mesh_without_namespace) ==
    [kind |-> "warning", about |-> mesh_without_namespace, text |-> "Not export skinning from"]

\* Where the loop goes on after a transform without a skin cluster
after_missing_skin_break(todo) == <<>>

after_missing_skin(todo) == Tail(todo)

\* The for loop of export_all_skin_weight_to_file
RECURSIVE ExportLoop(_, _, _, _, _)
ExportLoop(st, todo, id, suffix, path) ==
    IF todo = <<>> THEN st
    ELSE LET mesh == Head(todo)
             mesh_without_namespace == get_name_without_namespace(mesh)
             skin_cluster == find_related_skin_cluster(mesh)
         IN  IF skin_cluster = NoSkin
             THEN ExportLoop([st EXCEPT !.messages =
                                  Append(@, NoSkinWarning(mesh_without_namespace))],
                             after_missing_skin(todo), id, suffix, path)
             ELSE LET file_name == weights_file_name(mesh_without_namespace, id, suffix)
                  IN  ExportLoop(
                          [st EXCEPT !.exports = Append(@, [file_name |-> file_name,
                                                            deformer |-> skin_cluster.name,
                                                            path |-> path]),
                                     !.files = @ \cup {<<path, file_name>>},
                                     !.files_created = @ + 1],
                          Tail(todo), id, suffix, path)

\* export_all_skin_weight_to_file.  A folder is the tuple <<path>>, a file
\* the tuple <<folder, file name>>.
export_all_skin_weight_to_file(mesh_grp, file_path, id, suffix, version) ==
    /\ call' = [fn |-> "export_all_skin_weight_to_file", mesh_grp |-> mesh_grp,
                file_path |-> file_path, id |-> id, suffix |-> suffix,
                version |-> version]
    /\ LET mesh_children == all_descendent_transforms(parent, mesh_grp)
           directory == "v" \o version
       IN  IF file_path = None
           THEN \* os.path.join(None, directory)
                /\ outcome' = "raised"
                /\ result' = <<>>
                /\ messages' = <<>>
                /\ UNCHANGED <<files, exports>>
           ELSE LET path == path_join(file_path[1], directory) IN
                IF <<path>> \in files \/ <<file_path[1]>> \notin files
                THEN \* os.mkdir: the folder exists, or its parent does not
                     /\ outcome' = "raised"
                     /\ result' = <<>>
                     /\ messages' = <<>>
                     /\ UNCHANGED <<files, exports>>
                ELSE IF mesh_children = None
                THEN \* for mesh in None, after the folder is made
                     /\ outcome' = "raised"
                     /\ result' = <<>>
                     /\ messages' = <<>>
                     /\ files' = files \cup {<<path>>}
                     /\ UNCHANGED exports
                ELSE LET done == ExportLoop([messages |-> <<>>, exports |-> exports,
                                             files |-> files \cup {<<path>>},
                                             files_created |-> 0],
                                            mesh_children[1], id, suffix, path)
                     IN  /\ messages' = done.messages
                         /\ exports' = done.exports
                         /\ files' = done.files
                         /\ result' = <<done.files_created>>
                         /\ outcome' = "returned"


notExportVars == <<selection, userAttrs, proxies, skin, preScene, attrVars, pivotVars, parent, nodeType, preParent, callerList, frame, connections, poses, cvs>>

ExportGroups == {Path_grp, Path_sub, Path_props}
ExportMeshes == {Path_body, Path_eye, Path_sub_eye}

\* The skin cluster bound to each mesh of the scene
ClusterOf(mesh) ==
    CASE mesh = Path_body -> "skinCluster1"
      [] mesh = Path_eye  -> "skinCluster2"
      [] OTHER            -> "skinCluster3"

InitExport ==
    /\ call = NoCall
    /\ outcome = "none"
    /\ messages = <<>>
    /\ selection = <<>>
    /\ calls = 0
    /\ parent = [n \in Range(TransformOrder) |->
                    IF n \in {Path_grp, Path_props} THEN NoParent
                    ELSE IF n = Path_sub_eye THEN <<Path_sub>> ELSE <<Path_grp>>]
    /\ nodeType = [n \in Range(TransformOrder) |-> "transform"]
    /\ preParent = parent
    /\ \E skinned \in SUBSET ExportMeshes :
           skin = [n \in Range(TransformOrder) |->
                      IF n \in skinned THEN BoundSkin(ClusterOf(n)) ELSE NoSkin]
    /\ files \in {{<<"out">>}, {<<"out">>, <<"out/v00">>}}
    /\ exports = <<>>
    /\ userAttrs = <<>> /\ proxies = {} /\ preScene = <<>>
    /\ IdleAttr /\ IdlePivot
    /\ callerList = <<>> /\ result = <<>> /\ frame = <<>>
    /\ connections = {} /\ poses = <<>> /\ cvs = <<>>

ExportAllSkinWeightToFile ==
    /\ FirstCall
    /\ \E mesh_grp \in ExportGroups, file_path \in {None, <<"out">>, <<"lost">>},
          id \in {<<>>, <<"a">>}, version \in {"00", "01"} :
           export_all_skin_weight_to_file(mesh_grp, file_path, id,
               <<"s","k","i","n","W","e","i","g","h","t","s">>, version)
    /\ UNCHANGED notExportVars

NextExport == ExportAllSkinWeightToFile

SpecExport == InitExport /\ [][NextExport]_vars

\* The descendant transforms of the exported group, with and without a
\* related skin cluster
ExportDescendants == DescendantsOrSelf(parent, call.mesh_grp) \ {call.mesh_grp}
SkinnedDescendants == {t \in ExportDescendants : find_related_skin_cluster(t) # NoSkin}

C14_ListIsLeftAlone ==
    call.fn = "create_group_parent" =>
        /\ callerList = call.custom_structure
        /\ (calls = 2 /\ frame.target # frame.previous.target) =>
               frame.nesting = frame.previous.nesting

\* C14 holds of the default structure and of a custom_structure of one item
C14_DefaultOrSingleItem ==
    (call.fn = "create_group_parent" /\ Len(call.custom_structure) <= 1) =>
        C14_ListIsLeftAlone

\* What the calls do instead: the caller's list is left reversed, and the
\* groups are nested in the order of the list as it was received
C14_ListIsReversed ==
    (call.fn = "create_group_parent" /\ call.custom_structure # <<>>) =>
        /\ callerList = Reverse(call.custom_structure)
        /\ frame.nesting = Reverse(call.custom_structure)

====
